---- MODULE Spec2Model ----
(***************************************************************************)
(* Model of markdown/extensions/abbr.py: the abbreviation table kept by    *)
(* AbbrExtension, the declaration extractor AbbrBlockprocessor and the     *)
(* tree rewriter AbbrTreeprocessor.                                        *)
(*                                                                         *)
(* A Python str is a sequence of one-character strings.  A dict is a       *)
(* function from keys to values (sorted() is applied to the keys where the *)
(* code orders them).  An ElementTree is an arena: a sequence of node      *)
(* records, a node's identity being its index, the root being node 1.      *)
(***************************************************************************)
EXTENDS Naturals, Sequences, FiniteSets, TLC

VARIABLES
  glossary,   \* AbbrExtension.glossary
  abbrs,      \* AbbrExtension.abbrs, the dict shared with both processors
  _pattern,   \* AbbrTreeprocessor._pattern: <<>> is None, else the alternation
  blocks,     \* the caller's block list, the argument of AbbrBlockprocessor.run
  tree,       \* the caller's element tree, the argument of AbbrTreeprocessor.run
  passes,     \* number of rewrite passes run on the current tree
  op,         \* the operation that ran last
  err,        \* the exception that escaped the last operation, or "none"
  ret,        \* the value the last operation returned (TRUE/FALSE for run)
  decl,       \* the regex match of the last AbbrBlockprocessor.run
  scans,      \* the process_text calls of the last AbbrTreeprocessor.run
  visits,     \* the elements the last AbbrTreeprocessor.run walked over
  declared,   \* term -> definition of its latest handled declaration since
              \* the last reset()
  arg,        \* the dictionary passed to the last load_glossary
  pre         \* abbrs, glossary and declared as they were before the last operation

vars == <<glossary, abbrs, _pattern, blocks, tree, passes, op, err, ret, decl,
          scans, visits, declared, arg, pre>>

(***************************************************************************)
(* Characters and strings                                                  *)
(***************************************************************************)
NL == "\n"
BS == "\\"
SQ == "'"
DQ == "\""
SP == " "

\* str.isalnum() for the characters used here.
IsAlnum(c) == c \in {"A", "B", "5", "x", "y"}

\* The characters the re module's \w matches: alphanumerics and underscore.
IsWordChar(c) == IsAlnum(c) \/ c = "_"

\* The characters str.strip() removes with no argument.
IsSpace(c) == c \in {SP, NL}

\* s[i:j] for 0-based offsets i, j >= 0: offsets past the end are cut to
\* the end, and the slice is empty when i >= j.
Slice(s, i, j) ==
  LET hi == IF j < Len(s) THEN j ELSE Len(s)
  IN  IF i >= hi THEN <<>> ELSE SubSeq(s, i + 1, hi)

RECURSIVE LStripOf(_, _)
LStripOf(s, drop) ==
  IF s # <<>> /\ Head(s) \in drop THEN LStripOf(Tail(s), drop) ELSE s

RECURSIVE RStripOf(_, _)
RStripOf(s, drop) ==
  IF s # <<>> /\ s[Len(s)] \in drop
  THEN RStripOf(SubSeq(s, 1, Len(s) - 1), drop) ELSE s

\* str.strip(), str.lstrip("\n"), str.rstrip("\n")
strip(s) == RStripOf(LStripOf(s, {SP, NL}), {SP, NL})
lstrip_nl(s) == LStripOf(s, {NL})
rstrip_nl(s) == RStripOf(s, {NL})

\* s.startswith(t, i) for a 0-based offset i.
StartsWithAt(s, t, i) ==
  /\ i + Len(t) <= Len(s)
  /\ \A k \in 1..Len(t) : s[i + k] = t[k]

(***************************************************************************)
(* dict                                                                    *)
(***************************************************************************)
EmptyDict == [t \in {} |-> <<>>]

\* d.update(e), also {**d, **e}: the entries of e override those of d.
DictUpdate(d, e) ==
  [t \in DOMAIN d \cup DOMAIN e |-> IF t \in DOMAIN e THEN e[t] ELSE d[t]]

\* d.setdefault(k, v)
DictSet_keep(d, k, v) ==
  [t \in DOMAIN d \cup {k} |-> IF t \in DOMAIN d THEN d[t] ELSE v]

\* d[k] = v
DictSet(d, k, v) == [t \in DOMAIN d \cup {k} |-> IF t = k THEN v ELSE d[t]]

\* d without k (the effect of a d.pop(k) that finds k)
DictRemove(d, k) == [t \in DOMAIN d \ {k} |-> d[t]]

(***************************************************************************)
(* AbbrExtension                                                           *)
(***************************************************************************)
\* reset(): self.abbrs.clear(), then self.abbrs.update(self.glossary) when
\* the glossary is not empty.  The dict object stays the one the processors
\* hold, so the result is the processors' table too.
reset_noclear(table, gloss) == DictUpdate(table, gloss)
reset(table, gloss) ==
  LET cleared == EmptyDict
  IN  IF gloss # EmptyDict THEN DictUpdate(cleared, gloss) ELSE cleared

\* reset_glossary(): self.glossary.clear()
reset_glossary(gloss) == EmptyDict

\* load_glossary(dictionary): self.glossary = {**dictionary, **self.glossary}
load_glossary_newwins(gloss, dictionary) ==
  IF dictionary # EmptyDict THEN DictUpdate(gloss, dictionary) ELSE gloss
load_glossary(gloss, dictionary) ==
  IF dictionary # EmptyDict THEN DictUpdate(dictionary, gloss) ELSE gloss

\* extendMarkdown(md): loads the configured glossary, copies the glossary
\* into abbrs and hands the abbrs dict to both processors.
extendMarkdown(config) ==
  LET g == IF config # EmptyDict THEN load_glossary(EmptyDict, config)
           ELSE EmptyDict
  IN  [glossary |-> g, abbrs |-> DictUpdate(EmptyDict, g)]

(***************************************************************************)
(* AbbrBlockprocessor                                                      *)
(***************************************************************************)
\* s[i] for a 0-based offset, "" past the end.
At(s, i) == IF i < Len(s) THEN s[i + 1] ELSE ""

\* ^ under re.MULTILINE: the start of the string or just after a newline.
LineStart(s, p) == p = 0 \/ At(s, p - 1) = NL

\* [ ]?: after the "]" at offset j: the offset of the colon, or Len(s) + 1
\* when neither "]:" nor "] :" is there.
ColonAfter(s, j) ==
  IF At(s, j + 1) = ":" THEN j + 1
  ELSE IF At(s, j + 1) = SP /\ At(s, j + 2) = ":" THEN j + 2
  ELSE Len(s) + 1

\* [ ]* : the offset of the first non-space character at or after i.
RECURSIVE SkipSpaces(_, _)
SkipSpaces(s, i) == IF At(s, i) = SP THEN SkipSpaces(s, i + 1) ELSE i

\* .*$ : the offset of the end of the line that holds offset i.
RECURSIVE LineEnd(_, _)
LineEnd(s, i) == IF i >= Len(s) \/ At(s, i) = NL THEN i ELSE LineEnd(s, i + 1)

\* (?P<abbr>[^\\]*?)\] from offset i: the offsets j of a closing "]" that
\* the lazy group can stop at (no backslash in s[i:j]) and that [ ]?: follows.
AbbrEnds(s, i) ==
  {j \in i..(Len(s) - 1) :
     /\ At(s, j) = "]"
     /\ \A k \in i..(j - 1) : At(s, k) # BS
     /\ ColonAfter(s, j) <= Len(s)}

Min(S) == CHOOSE x \in S : \A y \in S : x <= y

NoMatch == [found |-> FALSE, start |-> 0, end |-> 0, abbr |-> <<>>, title |-> <<>>]

\* RE matched at offset p:
\*   ^[*]\[(?P<abbr>[^\\]*?)\][ ]?:[ ]*\n?[ ]*(?P<title>.*)$
\* The lazy abbr group takes the first closing bracket that lets the rest
\* match; after the colon every greedy part succeeds at its first try.
RE_match(s, p) ==
  IF ~(LineStart(s, p) /\ At(s, p) = "*" /\ At(s, p + 1) = "[") THEN NoMatch
  ELSE IF AbbrEnds(s, p + 2) = {} THEN NoMatch
  ELSE LET j  == Min(AbbrEnds(s, p + 2))
           c  == ColonAfter(s, j)
           s1 == SkipSpaces(s, c + 1)
           s2 == IF At(s, s1) = NL THEN s1 + 1 ELSE s1
           ts == SkipSpaces(s, s2)
           te == LineEnd(s, ts)
       IN  [found |-> TRUE, start |-> p, end |-> te,
            abbr |-> Slice(s, p + 2, j), title |-> Slice(s, ts, te)]

\* RE.search(block): the match at the leftmost offset that has one.
RE_search(s) ==
  LET starts == {p \in 0..(Len(s) - 1) : RE_match(s, p).found}
  IN  IF starts = {} THEN NoMatch ELSE RE_match(s, Min(starts))

IsSentinel(title) == title = <<SQ, SQ>> \/ title = <<DQ, DQ>>

\* The two blocks.insert(0, ...) of a handled declaration: the content after
\* the match first, then the content before it, each only when it is not
\* all whitespace.
requeue_keepdecl(rest, block, m) ==
  LET after  == Slice(block, m.start, Len(block))
      before == Slice(block, 0, m.start)
      q1 == IF strip(after) # <<>> THEN <<lstrip_nl(after)>> \o rest ELSE rest
  IN  IF strip(before) # <<>> THEN <<rstrip_nl(before)>> \o q1 ELSE q1
requeue_swapped(rest, block, m) ==
  LET after  == Slice(block, m.end, Len(block))
      before == Slice(block, 0, m.start)
      q1 == IF strip(before) # <<>> THEN <<rstrip_nl(before)>> \o rest ELSE rest
  IN  IF strip(after) # <<>> THEN <<lstrip_nl(after)>> \o q1 ELSE q1
requeue(rest, block, m) ==
  LET after  == Slice(block, m.end, Len(block))
      before == Slice(block, 0, m.start)
      q1 == IF strip(after) # <<>> THEN <<lstrip_nl(after)>> \o rest ELSE rest
  IN  IF strip(before) # <<>> THEN <<rstrip_nl(before)>> \o q1 ELSE q1

\* blocks.insert(0, block) when no declaration was handled: the popped
\* block goes back to the head of the list.
restore_dropped(rest, block) == rest
restore(rest, block) == <<block>> \o rest

\* AbbrBlockprocessor.run(parent, blocks) on a non-empty block list: the
\* block list and the table afterwards, the value returned and the exception
\* raised.  self.abbrs.pop(abbr) raises KeyError when abbr is not a key; the
\* popped block is then not put back.
BlockprocessorRun(q, table) ==
  LET block == Head(q)
      rest  == Tail(q)
      m     == RE_search(block)
      abbr  == strip(m.abbr)
      title == strip(m.title)
  IN  IF m.found /\ title # <<>> /\ abbr # <<>>
      THEN IF IsSentinel(title) /\ abbr \notin DOMAIN table
           THEN [blocks |-> rest, abbrs |-> table, ret |-> FALSE,
                 err |-> "KeyError", decl |-> m]
           ELSE [blocks |-> requeue(rest, block, m),
                 abbrs  |-> IF IsSentinel(title) THEN DictRemove(table, abbr)
                            ELSE DictSet(table, abbr, title),
                 ret |-> TRUE, err |-> "none", decl |-> m]
      ELSE [blocks |-> restore(rest, block), abbrs |-> table, ret |-> FALSE,
            err |-> "none", decl |-> m]

(***************************************************************************)
(* AbbrTreeprocessor                                                       *)
(***************************************************************************)
\* sorted(keys, key=len, reverse=True) as a sequence.  Keys of equal length
\* keep their dict order in the code; two different keys of one length never
\* match at the same offset, so their order does not show in any match and
\* a fixed choice stands for it.
RECURSIVE SortedByLen(_)
SortedByLen(keys) ==
  IF keys = {} THEN <<>>
  ELSE LET k == CHOOSE t \in keys : \A u \in keys : Len(u) <= Len(t)
       IN  <<k>> \o SortedByLen(keys \ {k})

\* The pattern property: builds self._pattern only when it is None and the
\* table is not empty, and never again.  The alternation is kept as the
\* sequence of its keys (re.escape makes each key match itself literally);
\* <<>> is None, for which the property returns the never-matching (?!).
pattern(cached, table) ==
  IF cached = <<>> /\ table # EmptyDict THEN SortedByLen(DOMAIN table)
  ELSE cached

\* \b at 0-based offset i of s: exactly one of the characters s[i-1], s[i]
\* is a word character (a missing character is none).
WordBoundary(s, i) ==
  LET before == i > 0 /\ IsWordChar(At(s, i - 1))
      after  == i < Len(s) /\ IsWordChar(At(s, i))
  IN  before # after

\* \b(?:k1|k2|...)\b tried at offset i: the first alternative, in the
\* alternation's order, that is at s[i:] and has a word boundary on both
\* sides; <<>> when there is none.
RECURSIVE FirstAlternative(_, _, _)
FirstAlternative(s, alts, i) ==
  IF alts = <<>> THEN <<>>
  ELSE IF StartsWithAt(s, Head(alts), i) /\ WordBoundary(s, i + Len(Head(alts)))
       THEN Head(alts)
       ELSE FirstAlternative(s, Tail(alts), i)

MatchAt(s, alts, i) ==
  IF WordBoundary(s, i) THEN FirstAlternative(s, alts, i) ELSE <<>>

\* get_regex(pattern).finditer(text): the non-overlapping matches, leftmost
\* first, scanning on from the end of each match.
RECURSIVE finditer(_, _, _)
finditer(s, alts, pos) ==
  IF pos >= Len(s) THEN <<>>
  ELSE LET t == MatchAt(s, alts, pos)
       IN  IF t # <<>>
           THEN <<[start |-> pos, end |-> pos + Len(t), text |-> t]>>
                \o finditer(s, alts, pos + Len(t))
           ELSE finditer(s, alts, pos + 1)

\* The loop of process_text over the matches: self.abbrs[m.group(0)] raises
\* KeyError for a match that is not a key of the table; a match whose
\* definition is empty is skipped.
RECURSIVE CollectMatches(_, _, _)
CollectMatches(ms, table, acc) ==
  IF ms = <<>> THEN [matches |-> acc, err |-> "none"]
  ELSE LET m == Head(ms)
       IN  IF m.text \notin DOMAIN table
           THEN [matches |-> acc, err |-> "KeyError"]
           ELSE CollectMatches(Tail(ms), table,
                  IF table[m.text] # <<>>
                  THEN Append(acc, [start |-> m.start, end |-> m.end,
                                    text |-> m.text, title |-> table[m.text]])
                  ELSE acc)

\* process_text(text, matches): nothing, not even the pattern, is touched
\* for an empty text.
process_text(text, cached, table) ==
  IF text = <<>> THEN [pat |-> cached, matches |-> <<>>, err |-> "none"]
  ELSE LET pat == pattern(cached, table)
           r   == CollectMatches(finditer(text, pat, 0), table, <<>>)
       IN  [pat |-> pat, matches |-> r.matches, err |-> r.err]

\* create_element(title, text, tail): the text is an AtomicString.
create_element(title, text, tail) ==
  [tag |-> "abbr", title |-> title, text |-> text, atomic |-> TRUE,
   tail |-> tail, children |-> <<>>]

Reverse(q) == [i \in 1..Len(q) |-> q[Len(q) + 1 - i]]

\* reversed(matches), the order in which the matches are applied.
forward_matches(matches) == matches
reversed_matches(matches) == Reverse(matches)

\* list.insert(idx, x) for a 0-based idx within the list.
ListInsert(q, idx, x) == SubSeq(q, 1, idx) \o <<x>> \o SubSeq(q, idx + 1, Len(q))

\* The index of the last element of the list, whatever x is.
ListIndex_last(q, x) == Len(q) - 1

\* list(parent).index(el)
ListIndex(q, x) == Min({i \in 1..Len(q) : q[i] = x}) - 1

\* The loop over reversed(matches) for el.text: each match makes an abbr
\* node whose tail is el.text[end:], inserts it as first child of el and
\* cuts el.text to el.text[:start] (a plain str from then on).
RECURSIVE InsertTextMatches(_, _, _)
InsertTextMatches(nodes, el, ms) ==
  IF ms = <<>> THEN nodes
  ELSE LET m    == Head(ms)
           cur  == nodes[el].text
           id   == Len(nodes) + 1
           abbr == create_element(m.title, m.text, Slice(cur, m.end, Len(cur)))
           n1   == Append(nodes, abbr)
           n2   == [n1 EXCEPT ![el].children = ListInsert(@, 0, id),
                              ![el].text = Slice(cur, 0, m.start),
                              ![el].atomic = FALSE]
       IN  InsertTextMatches(n2, el, Tail(ms))

\* The loop over reversed(matches) for el.tail: each abbr node goes into
\* the parent's child list at idx, the place right after el.
RECURSIVE InsertTailMatches(_, _, _, _, _)
InsertTailMatches(nodes, el, parent, idx, ms) ==
  IF ms = <<>> THEN nodes
  ELSE LET m    == Head(ms)
           cur  == nodes[el].tail
           id   == Len(nodes) + 1
           abbr == create_element(m.title, m.text, Slice(cur, m.end, Len(cur)))
           n1   == Append(nodes, abbr)
           n2   == [n1 EXCEPT ![parent].children = ListInsert(@, idx, id),
                              ![el].tail = Slice(cur, 0, m.start)]
       IN  InsertTailMatches(n2, el, parent, idx, Tail(ms))

\* The part of process_element_text for el.text.  st is the state of the
\* pass: the nodes, the cached pattern, the table, the elements that
\* process_element_text was called on, the process_text calls made so far
\* and the exception raised.
ProcessOwnText(st, el) ==
  IF st.nodes[el].text = <<>> THEN st
  ELSE LET r == process_text(st.nodes[el].text, st.pat, st.abbrs)
           call == [node |-> el, kind |-> "text", str |-> st.nodes[el].text,
                    matches |-> r.matches]
       IN  [st EXCEPT
             !.nodes = IF r.err = "none"
                       THEN InsertTextMatches(st.nodes, el,
                                              reversed_matches(r.matches))
                       ELSE st.nodes,
             !.pat = r.pat, !.scans = Append(st.scans, call), !.err = r.err]

\* The part of process_element_text for el.tail; parent = 0 is None.
ProcessTail(st, el, parent) ==
  IF parent = 0 \/ st.nodes[el].tail = <<>> THEN st
  ELSE LET r == process_text(st.nodes[el].tail, st.pat, st.abbrs)
           call == [node |-> el, kind |-> "tail", str |-> st.nodes[el].tail,
                    matches |-> r.matches]
           idx == ListIndex(st.nodes[parent].children, el) + 1
       IN  [st EXCEPT
             !.nodes = IF r.err = "none"
                       THEN InsertTailMatches(st.nodes, el, parent, idx,
                                              reversed_matches(r.matches))
                       ELSE st.nodes,
             !.pat = r.pat, !.scans = Append(st.scans, call), !.err = r.err]

\* process_element_text(el, parent).  reversed(el) walks the child list by
\* index, from the last index it had when the loop began down to 0, reading
\* the list as it is at each step; an exception ends the pass where it is.
RECURSIVE process_element_text(_, _, _), ReversedChildren(_, _, _)
ReversedChildren(st, el, i) ==
  IF i < 1 \/ st.err # "none" THEN st
  ELSE ReversedChildren(
         process_element_text(st, st.nodes[el].children[i], el), el, i - 1)

process_element_text(st, el, parent) ==
  LET s0 == [st EXCEPT !.visits = Append(@, el)]
      s1 == ReversedChildren(s0, el, Len(s0.nodes[el].children))
      s2 == IF s1.err = "none" THEN ProcessOwnText(s1, el) ELSE s1
  IN  IF s2.err = "none" THEN ProcessTail(s2, el, parent) ELSE s2

\* The state a pass begins in.
StartOfPass(nodes, cached, table) ==
  [nodes |-> nodes, pat |-> cached, abbrs |-> table, visits |-> <<>>,
   scans |-> <<>>, err |-> "none"]

\* AbbrTreeprocessor.run(root): nothing at all when the table is empty.
TreeprocessorRun_nocheck(nodes, cached, table) ==
  process_element_text(StartOfPass(nodes, cached, table), 1, 0)
TreeprocessorRun(nodes, cached, table) ==
  IF table = EmptyDict THEN StartOfPass(nodes, cached, table)
  ELSE process_element_text(StartOfPass(nodes, cached, table), 1, 0)

(***************************************************************************)
(* Inputs                                                                  *)
(***************************************************************************)
\* Terms and definitions.
tA  == <<"A">>
tAP == <<"A", "+">>
dX  == <<"x">>
dY  == <<"y">>

\* The glossary of the configuration (AbbrExtension(glossary=...)) and the
\* dictionaries passed to load_glossary.  The second one has another
\* definition for A and a term of its own.
ConfigGlossaries == {EmptyDict, [t \in {tA} |-> dX]}
LoadedGlossaries ==
  {EmptyDict, [t \in {tA, tAP} |-> IF t = tA THEN dY ELSE dX]}

\* Raw blocks, as the block parser hands them over.
\* '*[A]: x'
bDefine == <<"*", "[", "A", "]", ":", SP, "x">>
\* "*[A]: ''"
bDelete == <<"*", "[", "A", "]", ":", SP, SQ, SQ>>
\* 'B\n*[A+] :\n  y\nA+A B'
bMixed == <<"B", NL, "*", "[", "A", "+", "]", SP, ":", NL, SP, SP, "y", NL, "A", "+", "A", SP, "B">>
\* '*[A+]: y'
bPlus == <<"*", "[", "A", "+", "]", ":", SP, "y">>
\* '*[A]:  '
bNoTitle == <<"*", "[", "A", "]", ":", SP, SP>>
\* '*[ ]: x'
bNoTerm == <<"*", "[", SP, "]", ":", SP, "x">>
\* 'A B'
bPlain == <<"A", SP, "B">>
\* '*[A\\]: x'
bBackslash == <<"*", "[", "A", BS, "]", ":", SP, "x">>
\* '\n*[A+]: ""\n '
bDeleteBlank == <<NL, "*", "[", "A", "+", "]", ":", SP, DQ, DQ, NL, SP>>
\* '*[A]: y\n*[A+]: y'
bTwo == <<"*", "[", "A", "]", ":", SP, "y", NL, "*", "[", "A", "+", "]", ":", SP, "y">>

BlockLists ==
  {<<bDefine>>, <<bDelete, bPlain>>, <<bMixed, bPlain>>, <<bPlus>>,
   <<bNoTitle, bPlain>>, <<bNoTerm>>, <<bPlain>>, <<bBackslash>>,
   <<bDeleteBlank>>, <<bTwo, bPlain>>}

\* An element as the parser builds it: plain text, no attributes.
Element(tag, text, tail, children) ==
  [tag |-> tag, title |-> <<>>, text |-> text, atomic |-> FALSE,
   tail |-> tail, children |-> children]

\* <div><p>A+A</p></div>
Tree1 == <<Element("div", <<>>, <<>>, <<2>>),
           Element("p", <<"A", "+", "A">>, <<>>, <<>>)>>
\* <div>A <em>B</em> A+A B<em>A+</em>A</div>
Tree2 == <<Element("div", <<"A", SP>>, <<>>, <<2, 3>>),
           Element("em", <<"B">>, <<SP, "A", "+", "A", SP, "B">>, <<>>),
           Element("em", <<"A", "+">>, <<"A">>, <<>>)>>
\* <p>BA A_ 5A+A</p>
Tree3 == <<Element("p", <<"B", "A", SP, "A", "_", SP, "5", "A", "+", "A">>, <<>>, <<>>)>>

Trees == {Tree1, Tree2, Tree3}

\* Rewrite passes run on one tree.
MaxPasses == 2

(***************************************************************************)
(* State machine                                                           *)
(***************************************************************************)
NoTree == <<>>

Init ==
  /\ \E config \in ConfigGlossaries :
       /\ glossary = extendMarkdown(config).glossary
       /\ abbrs = extendMarkdown(config).abbrs
  /\ _pattern = <<>>
  /\ blocks = <<>>
  /\ tree = NoTree
  /\ passes = 0
  /\ op = "init"
  /\ err = "none"
  /\ ret = FALSE
  /\ decl = NoMatch
  /\ scans = <<>>
  /\ visits = <<>>
  /\ declared = EmptyDict
  /\ arg = EmptyDict
  /\ pre = [abbrs |-> EmptyDict, glossary |-> EmptyDict, declared |-> EmptyDict]

\* What every operation records about itself.
Called(name) ==
  /\ op' = name
  /\ pre' = [abbrs |-> abbrs, glossary |-> glossary, declared |-> declared]

\* A reset() that empties the Glossary as well.
Reset_ClearsGlossary ==
  /\ abbrs' = reset(abbrs, glossary)
  /\ glossary' = EmptyDict
  /\ Called("reset")
  /\ err' = "none" /\ ret' = FALSE /\ decl' = NoMatch /\ scans' = <<>>
  /\ visits' = <<>> /\ declared' = EmptyDict
  /\ arg' = EmptyDict
  /\ UNCHANGED <<_pattern, blocks, tree, passes>>

Reset ==
  /\ abbrs' = reset(abbrs, glossary)
  /\ Called("reset")
  /\ err' = "none" /\ ret' = FALSE /\ decl' = NoMatch /\ scans' = <<>>
  /\ visits' = <<>> /\ declared' = EmptyDict
  /\ arg' = EmptyDict
  /\ UNCHANGED <<glossary, _pattern, blocks, tree, passes>>

ResetGlossary ==
  /\ glossary' = reset_glossary(glossary)
  /\ Called("reset_glossary")
  /\ err' = "none" /\ ret' = FALSE /\ decl' = NoMatch /\ scans' = <<>>
  /\ visits' = <<>> /\ declared' = declared
  /\ arg' = EmptyDict
  /\ UNCHANGED <<abbrs, _pattern, blocks, tree, passes>>

LoadGlossary ==
  \E dictionary \in LoadedGlossaries :
    /\ glossary' = load_glossary(glossary, dictionary)
    /\ Called("load_glossary")
    /\ arg' = dictionary
    /\ err' = "none" /\ ret' = FALSE /\ decl' = NoMatch /\ scans' = <<>>
  /\ visits' = <<>> /\ declared' = declared
    /\ UNCHANGED <<abbrs, _pattern, blocks, tree, passes>>

\* The block parser starts on a document: it holds a new list of blocks and
\* no tree of the document before is left.
ParseBlocks ==
  \E q \in BlockLists :
    /\ blocks' = q
    /\ tree' = NoTree
    /\ passes' = 0
    /\ Called("parse_blocks")
    /\ err' = "none" /\ ret' = FALSE /\ decl' = NoMatch /\ scans' = <<>>
  /\ visits' = <<>> /\ declared' = declared
    /\ arg' = EmptyDict
    /\ UNCHANGED <<glossary, abbrs, _pattern>>

\* The parser has turned the blocks into the document tree; the block list
\* is used up.
ParseTree ==
  \E t \in Trees :
    /\ tree' = t
    /\ blocks' = <<>>
    /\ passes' = 0
    /\ Called("parse_tree")
    /\ err' = "none" /\ ret' = FALSE /\ decl' = NoMatch /\ scans' = <<>>
  /\ visits' = <<>> /\ declared' = declared
    /\ arg' = EmptyDict
    /\ UNCHANGED <<glossary, abbrs, _pattern>>

\* AbbrBlockprocessor.run on the caller's block list.
BlockRun ==
  /\ blocks # <<>>
  /\ LET r == BlockprocessorRun(blocks, abbrs)
     IN  /\ blocks' = r.blocks
         /\ abbrs' = r.abbrs
         /\ ret' = r.ret
         /\ err' = r.err
         /\ decl' = r.decl
         /\ declared' = IF r.ret
                        THEN [t \in DOMAIN declared \cup {strip(r.decl.abbr)} |->
                                IF t = strip(r.decl.abbr)
                                THEN strip(r.decl.title) ELSE declared[t]]
                        ELSE declared
  /\ Called("block_run")
  /\ scans' = <<>> /\ visits' = <<>> /\ arg' = EmptyDict
  /\ UNCHANGED <<glossary, _pattern, tree, passes>>

\* AbbrTreeprocessor.run on the caller's tree.
TreeRun ==
  /\ tree # NoTree
  /\ passes < MaxPasses
  /\ LET r == TreeprocessorRun(tree, _pattern, abbrs)
     IN  /\ tree' = r.nodes
         /\ _pattern' = r.pat
         /\ scans' = r.scans
         /\ visits' = r.visits
         /\ err' = r.err
  /\ passes' = passes + 1
  /\ Called("tree_run")
  /\ ret' = FALSE /\ decl' = NoMatch /\ arg' = EmptyDict
  /\ UNCHANGED <<glossary, abbrs, blocks, declared>>

Next ==
  \/ Reset
  \/ ResetGlossary
  \/ LoadGlossary
  \/ ParseBlocks
  \/ ParseTree
  \/ BlockRun
  \/ TreeRun

Spec == Init /\ [][Next]_vars

(***************************************************************************)
(* Properties                                                              *)
(***************************************************************************)
\* The characters of the document in document order: a node's text, then
\* each child's content followed by that child's tail.
RECURSIVE DocumentText(_, _), ChildrenText(_, _)
ChildrenText(nodes, ids) ==
  IF ids = <<>> THEN <<>>
  ELSE DocumentText(nodes, Head(ids)) \o nodes[Head(ids)].tail
       \o ChildrenText(nodes, Tail(ids))
DocumentText(nodes, id) ==
  nodes[id].text \o ChildrenText(nodes, nodes[id].children)

Range(q) == {q[i] : i \in 1..Len(q)}

\* C1: a rewrite pass keeps the document's characters: the text and tail
\* strings of the tree, concatenated in document order, are the same string
\* before and after AbbrTreeprocessor.run (also when the pass is cut short).
C1_CharactersPreserved ==
  [][op' = "tree_run" => DocumentText(tree', 1) = DocumentText(tree, 1)]_vars

\* A pass that wrapped two matches of one string, and matches both of a
\* text and of a tail.
C1_Witness ==
  /\ op = "tree_run" /\ err = "none"
  /\ \E i \in 1..Len(scans) : Len(scans[i].matches) >= 2
  /\ \E i \in 1..Len(scans) :
       scans[i].kind = "text" /\ Len(scans[i].matches) >= 1
  /\ \E i \in 1..Len(scans) :
       scans[i].kind = "tail" /\ Len(scans[i].matches) >= 1

\* The last AbbrBlockprocessor.run found a declaration with a non-empty
\* term whose definition is one of the sentinels '' and "".
SentinelDeclaration ==
  /\ op = "block_run"
  /\ decl.found
  /\ strip(decl.abbr) # <<>>
  /\ IsSentinel(strip(decl.title))

\* C2: a sentinel declaration for a term that is not in the table is a
\* silent no-op: no exception escapes and the table stays as it was.
C2_DeleteAbsentIsNoop ==
  (SentinelDeclaration /\ strip(decl.abbr) \notin DOMAIN pre.abbrs)
    => (err = "none" /\ abbrs = pre.abbrs)

\* The matches a pattern built from the table as it is now finds in s, with
\* their definitions.
CurrentMatches(s) ==
  CollectMatches(finditer(s, SortedByLen(DOMAIN abbrs), 0), abbrs, <<>>).matches

\* C3: every rewrite pass matches exactly the terms that are keys of the
\* table at the time of the pass: in every string it scans it finds the
\* matches of a pattern built from the current table, and it raises nothing.
C3_PassMatchesCurrentTable ==
  op = "tree_run" =>
    /\ err = "none"
    /\ \A i \in 1..Len(scans) : scans[i].matches = CurrentMatches(scans[i].str)

\* C4: after reset() the active table holds exactly the Glossary entries.
C4_ResetRestoresGlossary == op = "reset" => abbrs = glossary

\* A reset that dropped a term declared in the document before and gave a
\* redefined Glossary term its Glossary definition back.
C4_Witness ==
  /\ op = "reset"
  /\ glossary # EmptyDict
  /\ \E t \in DOMAIN pre.abbrs : t \notin DOMAIN glossary
  /\ \E t \in DOMAIN pre.abbrs \cap DOMAIN glossary : pre.abbrs[t] # glossary[t]

TermMatchesAt(s, t, i) ==
  StartsWithAt(s, t, i) /\ WordBoundary(s, i) /\ WordBoundary(s, i + Len(t))

\* The table terms that match at offset i of s, and the longest of them.
Candidates(s, i) == {t \in DOMAIN abbrs : TermMatchesAt(s, t, i)}
Longest(S) == CHOOSE t \in S : \A u \in S : Len(u) <= Len(t)

\* C6: longest-match precedence.  In every string a pass scans, the first
\* offset at which table terms match is wrapped with the longest of them
\* (when that term has a definition), and no match the pass wraps is shorter
\* than another table term matching at the same offset.
C6_LongestMatchWins ==
  op = "tree_run" =>
    \A k \in 1..Len(scans) :
      LET s  == scans[k].str
          ms == scans[k].matches
          at == {i \in 0..(Len(s) - 1) : Candidates(s, i) # {}}
      IN  /\ \A j \in 1..Len(ms) :
               ms[j].text = Longest(Candidates(s, ms[j].start) \cup {ms[j].text})
          /\ (at # {} /\ abbrs[Longest(Candidates(s, Min(at)))] # <<>>) =>
               /\ ms # <<>>
               /\ ms[1].start = Min(at)
               /\ ms[1].text = Longest(Candidates(s, Min(at)))
               /\ ms[1].title = abbrs[ms[1].text]

\* C7: word-boundary enforcement.  Every occurrence a pass wraps has no
\* alphanumeric character right before it and none right after it.
C7_NoAlnumNeighbour ==
  op = "tree_run" =>
    \A k \in 1..Len(scans) :
      \A j \in 1..Len(scans[k].matches) :
        LET s == scans[k].str
            m == scans[k].matches[j]
        IN  /\ m.start > 0 => ~IsAlnum(At(s, m.start - 1))
            /\ m.end < Len(s) => ~IsAlnum(At(s, m.end))

\* s has a character that is not whitespace.
HasContent(s) == \E i \in 1..Len(s) : ~IsSpace(s[i])

\* C8: after a handled declaration the block list is: the content before
\* the match (if it has any non-whitespace, its trailing newlines stripped),
\* the content after the match (likewise, its leading newlines stripped),
\* then the blocks that were queued behind the block, in their order.  The
\* matched declaration is in neither.
C8_RequeueOrder ==
  [][(op' = "block_run" /\ ret') =>
       LET block  == Head(blocks)
           before == SubSeq(block, 1, decl'.start)
           after  == SubSeq(block, decl'.end + 1, Len(block))
       IN  blocks' =
             (IF HasContent(before) THEN <<rstrip_nl(before)>> ELSE <<>>)
             \o (IF HasContent(after) THEN <<lstrip_nl(after)>> ELSE <<>>)
             \o Tail(blocks)]_vars

\* A handled declaration with content before it, content after it and a
\* block queued behind it.
C8_Witness ==
  /\ op = "block_run" /\ ret
  /\ decl.start > 0
  /\ Len(blocks) = 3

\* C9: the text of an abbr node is sealed: a second pass with the same
\* table on a tree that a pass has rewritten leaves the tree as it is.
C9_SecondPassChangesNothing ==
  [][(op = "tree_run" /\ err = "none" /\ op' = "tree_run") => tree' = tree]_vars

\* C10: no exception escapes the extractor or the rewriter.
C10_NoException == err = "none"

\* C11: when AbbrBlockprocessor.run returns "not handled", the block list
\* is as it was before the call, the popped block back at its head, and the
\* table is unchanged.
C11_NotHandledRestores ==
  [][(op' = "block_run" /\ err' = "none" /\ ~ret') =>
       (blocks' = blocks /\ abbrs' = abbrs)]_vars

\* A call that found a declaration whose definition trims to empty, with a
\* block queued behind it, and reported "not handled".
C11_Witness ==
  /\ op = "block_run" /\ err = "none" /\ ~ret
  /\ decl.found /\ strip(decl.title) = <<>>
  /\ Len(blocks) = 2

\* The terms of declared whose latest declaration is a deletion.
Deleted == {t \in DOMAIN declared : IsSentinel(declared[t])}

\* C12: within one document, after every call of AbbrBlockprocessor.run the
\* table maps each term declared so far to the definition of its most recent
\* handled declaration, a term whose most recent handled declaration is the
\* sentinel is absent from the table, and a rewrite pass adds no abbr node
\* for such a term.
C12_LastDeclarationWins ==
  [][/\ \A t \in DOMAIN declared' :
          IF IsSentinel(declared'[t]) THEN t \notin DOMAIN abbrs'
          ELSE t \in DOMAIN abbrs' /\ abbrs'[t] = declared'[t]
     /\ op' = "tree_run" =>
          \A i \in (Len(tree) + 1)..Len(tree') : tree'[i].text \notin Deleted]_vars

\* A pass that wrapped a term while another term, deleted by its latest
\* declaration, occurs in a scanned string.
C12_Witness ==
  /\ op = "tree_run" /\ err = "none"
  /\ \E i \in 1..Len(scans) : scans[i].matches # <<>>
  /\ \E t \in Deleted : \E i \in 1..Len(scans) :
       \E k \in 0..Len(scans[i].str) : TermMatchesAt(scans[i].str, t, k)
  /\ \E t \in DOMAIN declared : ~IsSentinel(declared[t])

\* C13: AbbrTreeprocessor.run with an empty table returns normally and leaves
\* the tree as it was (no node added, no text or tail changed), also when
\* the pattern cached by a pass over an earlier document is still there.
C13_EmptyTableLeavesTree ==
  [][(op' = "tree_run" /\ abbrs = EmptyDict) =>
       (tree' = tree /\ err' = "none")]_vars

\* A pass with an empty table over a tree that holds the terms of the cached
\* pattern.
C13_Witness ==
  /\ op = "tree_run" /\ abbrs = EmptyDict
  /\ _pattern # <<>>
  /\ \E i \in 1..Len(tree) : \E k \in 0..Len(tree[i].text) :
       \E t \in Range(_pattern) : TermMatchesAt(tree[i].text, t, k)

\* The calls of process_text in log that scanned the string `kind` of node n.
ScansOf(log, n, kind) ==
  {i \in 1..Len(log) : log[i].node = n /\ log[i].kind = kind}

\* The parent of node n in nodes, 0 for the root.
ParentOf(nodes, n) ==
  IF \E q \in 1..Len(nodes) : n \in Range(nodes[q].children)
  THEN CHOOSE q \in 1..Len(nodes) : n \in Range(nodes[q].children)
  ELSE 0

\* C14: a rewrite pass with a non-empty table calls process_element_text
\* exactly once on each node the tree had before the pass and on no node
\* inserted during the pass, and it scans each non-empty text, and each
\* non-empty tail of a node with a parent, of the tree before the pass
\* exactly once, and nothing else.
C14_EachOriginalNodeOnce ==
  [][(op' = "tree_run" /\ abbrs # EmptyDict) =>
       /\ Len(visits') = Len(tree)
       /\ Range(visits') = 1..Len(tree)
       /\ \A i \in 1..Len(scans') :
            /\ scans'[i].node \in 1..Len(tree)
            /\ scans'[i].str = tree[scans'[i].node][scans'[i].kind]
       /\ \A n \in 1..Len(tree) :
            /\ Cardinality(ScansOf(scans', n, "text")) =
                 IF tree[n].text # <<>> THEN 1 ELSE 0
            /\ Cardinality(ScansOf(scans', n, "tail")) =
                 IF tree[n].tail # <<>> /\ ParentOf(tree, n) # 0 THEN 1 ELSE 0
     ]_vars

\* C15: only load_glossary and reset_glossary change the Glossary: reset(),
\* every call of AbbrBlockprocessor.run (definition, overwrite, deletion) and
\* every rewrite pass leave it as it was, and after reset() every Glossary
\* term is in the table with its Glossary definition, whatever the document
\* before did to it.
C15_GlossaryFrame ==
  [][/\ op' \notin {"load_glossary", "reset_glossary"} => glossary' = glossary
     /\ op' = "reset" =>
          \A t \in DOMAIN glossary' :
            t \in DOMAIN abbrs' /\ abbrs'[t] = glossary'[t]]_vars

\* A reset() after a document that deleted one Glossary term and redefined
\* another.
C15_Witness ==
  /\ op = "reset"
  /\ \E t \in DOMAIN glossary \cap DOMAIN pre.declared :
       IsSentinel(pre.declared[t]) /\ t \notin DOMAIN pre.abbrs
  /\ \E t \in DOMAIN glossary \cap DOMAIN pre.declared :
       /\ ~IsSentinel(pre.declared[t]) /\ pre.declared[t] # glossary[t]
       /\ pre.abbrs[t] = pre.declared[t]

\* The position of x in the list q.
PosOf(q, x) == CHOOSE i \in 1..Len(q) : q[i] = x

\* The children of a node that the tree before the pass (of n nodes) had.
OriginalChildren(children, n) ==
  LET IsOriginal(c) == c <= n IN SelectSeq(children, IsOriginal)

\* In nodes, the L children of `par` that follow position `at` are nodes
\* inserted by the pass (ids above n), the k-th of them made from ms[k].
AbbrsInMatchOrder(nodes, n, par, at, ms) ==
  /\ Len(nodes[par].children) >= at + Len(ms)
  /\ \A k \in 1..Len(ms) :
       LET c == nodes[par].children[at + k]
       IN  c > n /\ nodes[c].text = ms[k].text /\ nodes[c].title = ms[k].title

\* C16: every node a rewrite pass inserts is an abbr node without children
\* whose text is a key of the table and whose title is the table's
\* definition of that key; every original node keeps its original children
\* in their original order; the abbr nodes made from a text are the first
\* children of its node and those made from a tail directly follow its node
\* in the parent's child list, in the order of their matches (a call of
\* process_text that raised made no node).
C16_InsertedNodes ==
  [][op' = "tree_run" =>
       /\ Len(tree') >= Len(tree)
       /\ \A i \in (Len(tree) + 1)..Len(tree') :
            /\ tree'[i].tag = "abbr" /\ tree'[i].children = <<>>
            /\ tree'[i].text \in DOMAIN abbrs
            /\ tree'[i].title = abbrs[tree'[i].text]
       /\ \A n \in 1..Len(tree) :
            /\ OriginalChildren(tree'[n].children, Len(tree)) = tree[n].children
            /\ tree'[n].tag = tree[n].tag
       /\ \A i \in 1..Len(scans') :
            LET sc == scans'[i]
                par == ParentOf(tree', sc.node)
            IN  IF i = Len(scans') /\ err' # "none" THEN TRUE
                ELSE IF sc.kind = "text"
                THEN AbbrsInMatchOrder(tree', Len(tree), sc.node, 0, sc.matches)
                ELSE AbbrsInMatchOrder(tree', Len(tree), par,
                                       PosOf(tree'[par].children, sc.node),
                                       sc.matches)
     ]_vars

\* A pass that made two abbr nodes from the tail of a node with a later
\* original sibling, and one from a text.
C16_Witness ==
  /\ op = "tree_run" /\ err = "none" /\ passes = 1
  /\ \E i \in 1..Len(scans) :
       /\ scans[i].kind = "tail" /\ Len(scans[i].matches) >= 2
       /\ LET sibs == tree[ParentOf(tree, scans[i].node)].children
              at == PosOf(sibs, scans[i].node)
          IN  \E k \in (at + 1)..Len(sibs) : tree[sibs[k]].tag # "abbr"
  /\ \E i \in 1..Len(scans) :
       scans[i].kind = "text" /\ scans[i].matches # <<>>

\* The number of characters held in a list of blocks.
RECURSIVE TotalChars(_)
TotalChars(q) == IF q = <<>> THEN 0 ELSE Len(Head(q)) + TotalChars(Tail(q))

\* C17: every call of AbbrBlockprocessor.run that returns True leaves
\* strictly fewer characters in the block list than it found there, so a
\* chain of handled calls on a list is no longer than the list's characters.
C17_HandledShrinksQueue ==
  [][(op' = "block_run" /\ ret') => TotalChars(blocks') < TotalChars(blocks)]_vars

\* A handled call that put back text holding a further declaration, which
\* the next call will handle.
C17_Witness ==
  /\ op = "block_run" /\ ret
  /\ blocks # <<>>
  /\ RE_search(Head(blocks)).found
  /\ BlockprocessorRun(blocks, abbrs).ret

====
